---- MODULE Spec2Model ----
(***************************************************************************)
(* Substitution sets (frontend/price_per_unit/substitution_sets.py).       *)
(*                                                                         *)
(* Python strings are modelled as sequences of one-character strings, so   *)
(* that len(), slicing, strip(), str.join, regular-expression matching and *)
(* lexical ordering are computed character by character.  Dictionaries are *)
(* records with the keys in insertion order and the key -> value map.      *)
(***************************************************************************)
EXTENDS Integers, Sequences, FiniteSets, TLC

VARIABLES
    pc,                  \* position of the run: what has been applied so far
    bnf_code,            \* argument of generic_equivalent_for_bnf_code
    generic_code,        \* its return value
    regeneric_code,      \* return value of the classifier on generic_code
    pairs,               \* argument of groups_from_pairs
    groups,              \* the list of groups it yields
    rows,                \* accepted contents of the formulation swaps file
    formulation_swaps,   \* return value (or raised error) of get_formulation_swaps
    bnf_codes,           \* argument of get_substitution_sets_from_bnf_codes
    substitution_sets,   \* its return value (or raised error)
    db,                  \* bnf_code column of the presentation table
    db_up,               \* whether the next query of the table succeeds
    cache,               \* lru_cache of get_substitution_sets: <<>> or <<value>>
    executions,          \* executions of the body of get_substitution_sets
    allocated,           \* result dictionaries constructed so far
    returned             \* outcome of each call of get_substitution_sets so far

vars == <<pc, bnf_code, generic_code, regeneric_code, pairs, groups, rows,
          formulation_swaps, bnf_codes, substitution_sets, db, db_up, cache,
          executions, allocated, returned>>

\* Python's None.  Strings are sequences of one-character strings, so this
\* four-character element makes it different from every string.
None == <<"None">>

\* The value of a variable that the running specification does not use.
Unused == <<>>

---------------------------------------------------------------------------
(* Strings *)

Range(s) == {s[i] : i \in DOMAIN s}

\* The characters that occur in the modelled inputs, in code point order.
CodePoints ==
    <<"\t","\n"," ","/","0","1","2","3","4","5","6","7","8","9","?","A","B","C","D","E","F","G","H","I","J","K","L","M","N","O","P","Q","R","S","T","U","V","W","X","Y","Z","a","b","c","d","e","f","g","h","i","j","k","l","m","n","o","p","q","r","s","t","u","v","w","x","y","z">>

ord == [c \in Range(CodePoints) |-> CHOOSE i \in DOMAIN CodePoints : CodePoints[i] = c]

\* str.__lt__: the first differing character decides, a proper prefix is smaller.
RECURSIVE StrLess(_, _)
StrLess(a, b) ==
    IF b = <<>> THEN FALSE
    ELSE IF a = <<>> THEN TRUE
    ELSE IF a[1] # b[1] THEN ord[a[1]] < ord[b[1]]
    ELSE StrLess(Tail(a), Tail(b))

\* sorted(): insertion of each element after the elements not greater than it.
RECURSIVE SortedInsert(_, _)
SortedInsert(sorted_list, x) ==
    IF sorted_list = <<>> THEN <<x>>
    ELSE IF StrLess(x, sorted_list[1]) THEN <<x>> \o sorted_list
    ELSE <<sorted_list[1]>> \o SortedInsert(Tail(sorted_list), x)

RECURSIVE sorted(_)
sorted(list) ==
    IF list = <<>> THEN <<>>
    ELSE SortedInsert(sorted(SubSeq(list, 1, Len(list) - 1)), list[Len(list)])

Whitespace == {" ", "\t", "\n"}

RECURSIVE lstrip(_)
lstrip(s) == IF s # <<>> /\ s[1] \in Whitespace THEN lstrip(Tail(s)) ELSE s

RECURSIVE rstrip(_)
rstrip(s) ==
    IF s # <<>> /\ s[Len(s)] \in Whitespace THEN rstrip(SubSeq(s, 1, Len(s) - 1)) ELSE s

strip(s) == rstrip(lstrip(s))

\* sep.join(list)
RECURSIVE join(_, _)
join(sep, list) ==
    IF list = <<>> THEN <<>>
    ELSE IF Len(list) = 1 THEN list[1]
    ELSE list[1] \o sep \o join(sep, Tail(list))

\* s[lo:hi] for 0 <= lo <= hi: a slice never raises, it is cut at the end of s.
Slice(s, lo, hi) ==
    SubSeq(s, lo + 1, IF hi < Len(s) THEN hi ELSE Len(s))

---------------------------------------------------------------------------
(* Code classifier *)

\* The alternatives of EXCLUSIONS_RE (re.VERBOSE drops the blanks and the
\* comments).  A pattern is a sequence of tokens: "." is any character but a
\* newline, ".*" any run of such characters, anything else is a literal.
EXCLUSIONS_RE == <<
    <<"0","3","0","2","0","0","0","C","0",".",".",".",".","B","E">>,
    <<"0","3","0","2","0","0","0","C","0",".",".",".",".","B","F">>,
    <<"0","3","0","2","0","0","0","C","0",".",".",".",".","B","H">>,
    <<"0","3","0","2","0","0","0","C","0",".",".",".",".","B","G">>,
    <<"0","9","0","4","0","1","0","H","0">> \o <<".*">>,
    <<"1","3","1","1","0","7","0","S","0",".",".",".",".","A","A">>,
    <<"1","3","1","1","0","2","0","L","0",".",".",".",".","B","S">>,
    <<"0","3","0","1","0","2","0","S","0",".",".",".",".","A","A">>,
    <<"1","9","0","7","0","0","0","0","0","B","B","C","J","A","0">>,
    <<"0","6","0","4","0","1","1","L","0","B","G","A","A","A","H">>,
    <<"1","5","0","2","0","1","0","J","0",".",".",".",".","B","Y">>,
    <<"1","2","0","1","0","1","0","F","0","A","A","A","A","A","A">>,
    <<"0","1","0","7","0","1","0","S","0","A","A","A","G","A","G">>,
    <<"0","6","0","0","1","6","0","0","0","B","B","A","A","A","0">>,
    <<"1","9","0","2","0","1","0","0","0","A","A","B","J","B","J">>,
    <<"1","9","0","2","0","1","0","0","0","A","A","B","K","B","K">>,
    <<"1","9","0","2","0","1","0","0","0","A","A","B","L","B","L">>,
    <<"1","9","0","2","0","1","0","0","0","A","A","B","M","B","M">>,
    <<"1","9","0","2","0","1","0","0","0","A","A","B","N","B","N">>,
    <<"1","9","0","2","0","2","0","0","0","A","A","A","D","A","D">> >>

\* A pattern matched at the start of s, as re.match does: the rest of s is free.
RECURSIVE MatchTokens(_, _)
MatchTokens(tokens, s) ==
    IF tokens = <<>> THEN TRUE
    ELSE IF tokens[1] = ".*"
        THEN \E k \in 0..Len(s) :
                /\ \A i \in 1..k : s[i] # "\n"
                /\ MatchTokens(Tail(tokens), SubSeq(s, k + 1, Len(s)))
    ELSE /\ s # <<>>
         /\ IF tokens[1] = "." THEN s[1] # "\n" ELSE s[1] = tokens[1]
         /\ MatchTokens(Tail(tokens), Tail(s))

EXCLUSIONS_RE_match(s) ==
    \E i \in DOMAIN EXCLUSIONS_RE : MatchTokens(EXCLUSIONS_RE[i], s)

\* The keys of GENERIC_SUB_PARAGRAPHS with their names.
GENERIC_SUB_PARAGRAPHS == <<
    [sub_para |-> <<"0","6","0","1","0","6","0","U","0">>, name |-> "Urine Testing Reagents"],
    [sub_para |-> <<"0","6","0","1","0","6","0","D","0">>, name |-> "Glucose Blood Testing Reagents"] >>

GENERIC_SUB_PARAGRAPHS_keys ==
    {GENERIC_SUB_PARAGRAPHS[i].sub_para : i \in DOMAIN GENERIC_SUB_PARAGRAPHS}

\* A plausible slip: the strength and formulation sliced one character early.
generic_equivalent_sliced_early(code) ==
    IF Len(code) # 15 THEN None
    ELSE IF EXCLUSIONS_RE_match(code) THEN None
    ELSE IF Slice(code, 12, 14) # <<"A","0">> \/ Slice(code, 0, 9) \in GENERIC_SUB_PARAGRAPHS_keys
        THEN Slice(code, 0, 9) \o <<"A","A">> \o Slice(code, 12, 14) \o Slice(code, 12, 14)
    ELSE None

\* A plausible slip: the sub-paragraph override left out.
generic_equivalent_without_override(code) ==
    IF Len(code) # 15 THEN None
    ELSE IF EXCLUSIONS_RE_match(code) THEN None
    ELSE IF Slice(code, 13, 15) # <<"A","0">>
        THEN Slice(code, 0, 9) \o <<"A","A">> \o Slice(code, 13, 15) \o Slice(code, 13, 15)
    ELSE None

generic_equivalent_for_bnf_code(code) ==
    IF Len(code) # 15 THEN None
    ELSE IF EXCLUSIONS_RE_match(code) THEN None
    ELSE LET sub_paragraph_and_chemical == Slice(code, 0, 9)
             generic_strength_and_formulation == Slice(code, 13, 15)
             has_generic_equivalent == generic_strength_and_formulation # <<"A","0">>
         IN  IF \/ has_generic_equivalent
                \/ sub_paragraph_and_chemical \in GENERIC_SUB_PARAGRAPHS_keys
             THEN sub_paragraph_and_chemical \o <<"A","A">>
                      \o generic_strength_and_formulation
                      \o generic_strength_and_formulation
             ELSE None

---------------------------------------------------------------------------
(* Equivalence merger *)

\* A dict: its keys in insertion order and the value at each key.
EmptyDict == [keys |-> <<>>, at |-> <<>>]

DictHas(d, k) == k \in Range(d.keys)

\* d[k] = v: a new key goes last, an old key keeps its place.
DictSet(d, k, v) ==
    IF DictHas(d, k)
    THEN [keys |-> d.keys, at |-> [x \in Range(d.keys) |-> IF x = k THEN v ELSE d.at[x]]]
    ELSE [keys |-> Append(d.keys, k),
          at |-> [x \in Range(d.keys) \cup {k} |-> IF x = k THEN v ELSE d.at[x]]]

\* The lists live in a heap, a sequence indexed by the identity of the list, so
\* that "other_group is not group" compares identities and group.extend is
\* seen through every key that holds the list.

\* A plausible slip: the loop over the members left out, only the first
\* member of other_group is re-pointed.
RepointFirstMember(d, members, group) == DictSet(d, members[1], group)

\* for member in other_group: groups[member] = group
RECURSIVE RepointMembers(_, _, _)
RepointMembers(d, members, group) ==
    IF members = <<>> THEN d
    ELSE RepointMembers(DictSet(d, members[1], group), Tail(members), group)

\* A plausible slip: the shorter list goes in front when two lists merge.
ShorterFirst(group_list, other_list) ==
    IF Len(other_list) < Len(group_list)
    THEN other_list \o group_list
    ELSE group_list \o other_list

\* group.extend(other_group)
Extended(group_list, other_list) == group_list \o other_list

\* One turn of the loop over the pairs.
groups_from_pairs_step(st, pair) ==
    LET element == pair[1]
        other_element == pair[2]
        \* group = groups.setdefault(element, [element])
        known == DictHas(st.groups, element)
        heap1 == IF known THEN st.heap ELSE Append(st.heap, <<element>>)
        groups1 == IF known THEN st.groups
                   ELSE DictSet(st.groups, element, Len(heap1))
        group == groups1.at[element]
        \* other_group = groups.get(other_element, [other_element])
        other_known == DictHas(groups1, other_element)
        heap2 == IF other_known THEN heap1 ELSE Append(heap1, <<other_element>>)
        other_group == IF other_known THEN groups1.at[other_element] ELSE Len(heap2)
    IN  IF other_group # group
        THEN \* group.extend(other_group), then every member points to group
             [heap |-> [heap2 EXCEPT ![group] = Extended(heap2[group], heap2[other_group])],
              groups |-> RepointMembers(groups1, heap2[other_group], group)]
        ELSE [heap |-> heap2, groups |-> groups1]

RECURSIVE groups_from_pairs_loop(_, _)
groups_from_pairs_loop(st, pair_list) ==
    IF pair_list = <<>> THEN st
    ELSE groups_from_pairs_loop(groups_from_pairs_step(st, pair_list[1]), Tail(pair_list))

\* The second loop: the keys in insertion order, a list is yielded at the key
\* that is its first element.
RECURSIVE groups_from_pairs_yield(_, _)
groups_from_pairs_yield(st, keys) ==
    IF keys = <<>> THEN <<>>
    ELSE LET group == st.heap[st.groups.at[keys[1]]]
         IN  (IF keys[1] = group[1] THEN <<group>> ELSE <<>>)
                 \o groups_from_pairs_yield(st, Tail(keys))

\* st is the state that the first loop leaves.
groups_from_pairs_yield_all(st) == groups_from_pairs_yield(st, st.groups.keys)

groups_from_pairs(pair_list) ==
    groups_from_pairs_yield_all(
        groups_from_pairs_loop([heap |-> <<>>, groups |-> EmptyDict], pair_list))

---------------------------------------------------------------------------
(* Swap table loader *)

\* The outcome of a call: the value it returns or the exception it raises.
Returned(value) == [returned |-> value]
Raised(exception) == [raised |-> exception]
IsRaised(outcome) == "raised" \in DOMAIN outcome

\* A row of the file, as csv.DictReader hands it over: the columns "Code",
\* "Alternative code", "Formulation", "Alternative formulation" and
\* "Really equivalent?".
Row(code, alternative_code, formulation, alternative_formulation, really_equivalent) ==
    [Code |-> code, Alternative_code |-> alternative_code,
     Formulation |-> formulation, Alternative_formulation |-> alternative_formulation,
     Really_equivalent |-> really_equivalent]

\* The rows that are not skipped.
RowAccepted(row) == strip(row.Really_equivalent) = <<"Y">>

\* A plausible slip: the third assertion left out.
RowAssertionsWithoutDistinct(code, alternative_code) ==
    /\ code = generic_equivalent_for_bnf_code(code)
    /\ alternative_code = generic_equivalent_for_bnf_code(alternative_code)

\* The three assertions on an accepted row.
RowAssertions(code, alternative_code) ==
    /\ code = generic_equivalent_for_bnf_code(code)
    /\ alternative_code = generic_equivalent_for_bnf_code(alternative_code)
    /\ code # alternative_code

\* The loop over the rows: the pairs in row order and the formulations dict,
\* where a later row overwrites the formulation an earlier row gave a code.
RECURSIVE read_rows(_, _, _)
read_rows(data, code_pairs, formulations) ==
    IF data = <<>>
    THEN Returned([code_pairs |-> code_pairs, formulations |-> formulations])
    ELSE LET row == data[1]
             code == strip(row.Code)
             alternative_code == strip(row.Alternative_code)
         IN  IF ~RowAccepted(row)
             THEN read_rows(Tail(data), code_pairs, formulations)
             ELSE IF ~RowAssertions(code, alternative_code)
             THEN Raised("AssertionError")
             ELSE read_rows(
                      Tail(data),
                      Append(code_pairs, <<code, alternative_code>>),
                      (alternative_code :> strip(row.Alternative_formulation))
                          @@ (code :> strip(row.Formulation))
                          @@ formulations)

\* The unique formulations of a group, the empty ones dropped.  The order in
\* which Python walks the set is not fixed; both uses (len and sorted) are
\* independent of it, so the set itself is the value.
formulations_for_group(formulations, code_group) ==
    {f \in {formulations[c] : c \in Range(code_group)} : f # <<>>}

\* The second loop: one tuple (code_group, formulations_for_group) for each group.
yield_groups(formulations, code_groups) ==
    [i \in DOMAIN code_groups |->
        [codes |-> code_groups[i],
         formulations |-> formulations_for_group(formulations, code_groups[i])]]

\* read is the outcome of the loop over the rows.
yield_from_rows(read) ==
    IF IsRaised(read) THEN read
    ELSE Returned(yield_groups(read.returned.formulations,
                               groups_from_pairs(read.returned.code_pairs)))

\* The generator runs to its first yield on the first next(): every row is
\* read and checked before a group is handed over.
read_formulation_swaps_file(data) == yield_from_rows(read_rows(data, <<>>, <<>>))

\* sorted() of a set of different strings.
RECURSIVE sorted_set(_)
sorted_set(S) ==
    IF S = {} THEN <<>>
    ELSE LET least == CHOOSE x \in S : \A y \in S \ {x} : StrLess(x, y)
         IN  <<least>> \o sorted_set(S \ {least})

\* A plausible slip: the first code of the group taken as it comes.
FirstCode(codes) == codes[1]

\* primary_code = sorted(codes)[0]
PrimaryCode(codes) == sorted(codes)[1]

\* A plausible slip: a description also for a group of one formulation.
DescribedFromOne(formulations) == Cardinality(formulations) >= 1

\* if len(formulations) > 1
Described(formulations) == Cardinality(formulations) > 1

RECURSIVE swaps_loop(_, _, _)
swaps_loop(yielded, swaps, swap_descriptions) ==
    IF yielded = <<>>
    THEN [swaps |-> swaps, swap_descriptions |-> swap_descriptions]
    ELSE LET codes == yielded[1].codes
             formulations == yielded[1].formulations
             primary_code == PrimaryCode(codes)
         IN  swaps_loop(
                 Tail(yielded),
                 [code \in Range(codes) |-> primary_code] @@ swaps,
                 IF Described(formulations)
                 THEN (primary_code :> join(<<" ","/"," ">>, sorted_set(formulations)))
                          @@ swap_descriptions
                 ELSE swap_descriptions)

\* yielded is the outcome of the generator.
swaps_from_groups(yielded) ==
    IF IsRaised(yielded) THEN yielded
    ELSE Returned(swaps_loop(yielded.returned, <<>>, <<>>))

get_formulation_swaps(data) == swaps_from_groups(read_formulation_swaps_file(data))

---------------------------------------------------------------------------
(* Substitution set builder *)

\* Presentation.names_for_bnf_codes: the names that the presentation table
\* holds for the given codes; a code without a row has no entry.
PresentationNames ==
    (<<"0","4","0","7","0","2","0","4","0","A","A","A","C","A","C">> :> "Tramadol HCl_Tab 100mg")
        @@ (<<"0","4","0","7","0","2","0","4","0","A","A","A","H","A","H">> :> "Tramadol HCl_Cap 100mg")

names_for_bnf_codes(codes) ==
    [c \in codes \cap DOMAIN PresentationNames |-> PresentationNames[c]]

RECURSIVE sub_paragraph_names(_, _)
sub_paragraph_names(items, names) ==
    IF items = <<>> THEN names
    ELSE sub_paragraph_names(
             Tail(items),
             ((items[1].sub_para \o <<"A","A","A","0","A","0">>) :> items[1].name) @@ names)

get_names_for_bnf_codes(codes) ==
    sub_paragraph_names(GENERIC_SUB_PARAGRAPHS, names_for_bnf_codes(codes))

\* if generic_code: None and the empty string are both false.
Truthy(value) == value # None /\ value # <<>>

\* presentation_sets[generic_code].append(bnf_code), a new key of the
\* defaultdict starting from the empty list.
append_presentation(presentation_sets, key, code) ==
    DictSet(presentation_sets, key,
            Append(IF DictHas(presentation_sets, key)
                   THEN presentation_sets.at[key] ELSE <<>>,
                   code))

\* The body of the loop over bnf_codes; classified is the generic equivalent
\* of the code.
add_presentation(presentation_sets, swaps, code, classified) ==
    IF Truthy(classified)
    THEN append_presentation(
             presentation_sets,
             IF classified \in DOMAIN swaps THEN swaps[classified] ELSE classified,
             code)
    ELSE presentation_sets

RECURSIVE presentation_sets_loop(_, _, _)
presentation_sets_loop(codes, swaps, presentation_sets) ==
    IF codes = <<>> THEN presentation_sets
    ELSE presentation_sets_loop(
             Tail(codes), swaps,
             add_presentation(presentation_sets, swaps, codes[1],
                              generic_equivalent_for_bnf_code(codes[1])))

\* A plausible slip: a set of one presentation kept.
AtLeastOne(presentations) == Len(presentations) > 0

\* if len(presentations) > 1
MoreThanOne(presentations) == Len(presentations) > 1

SubstitutionSet(id, name, presentations, swap_description) ==
    [id |-> id, name |-> name, presentations |-> presentations,
     formulation_swaps |-> swap_description]

\* The list comprehension over presentation_sets.items(), in key order.
RECURSIVE substitution_set_list(_, _, _, _)
substitution_set_list(keys, presentation_sets, names, swap_descriptions) ==
    IF keys = <<>> THEN <<>>
    ELSE LET key == keys[1]
             presentations == presentation_sets.at[key]
         IN  (IF MoreThanOne(presentations)
              THEN << SubstitutionSet(
                          key,
                          IF key \in DOMAIN names THEN names[key] ELSE "unknown",
                          sorted(presentations),
                          IF key \in DOMAIN swap_descriptions
                          THEN swap_descriptions[key] ELSE None) >>
              ELSE <<>>)
                 \o substitution_set_list(Tail(keys), presentation_sets, names,
                                          swap_descriptions)

\* The sets of the filled presentation_sets, with their names.
sets_from_presentation_sets(presentation_sets, swap_descriptions) ==
    substitution_set_list(
        presentation_sets.keys, presentation_sets,
        get_names_for_bnf_codes(Range(presentation_sets.keys)), swap_descriptions)

\* loaded is the outcome of get_formulation_swaps(FORMULATION_SWAPS_FILE).
sets_from_swaps(loaded, codes) ==
    IF IsRaised(loaded) THEN loaded
    ELSE Returned(sets_from_presentation_sets(
             presentation_sets_loop(codes, loaded.returned.swaps, EmptyDict),
             loaded.returned.swap_descriptions))

\* data is the content of FORMULATION_SWAPS_FILE.
get_substitution_sets_from_bnf_codes(data, codes) ==
    sets_from_swaps(get_formulation_swaps(data), codes)

---------------------------------------------------------------------------
(* Memoized accessor *)

\* {s.id: s for s in substitution_sets}: a later set replaces an earlier one
\* of the same id.
sets_by_id(set_list) ==
    [k \in {set_list[i].id : i \in DOMAIN set_list} |->
        set_list[CHOOSE i \in DOMAIN set_list :
                    /\ set_list[i].id = k
                    /\ \A j \in DOMAIN set_list : set_list[j].id = k => j <= i]]

\* The return of the body: built is the outcome of the builder, the
\* dictionary is a new object, known by its identity.
dict_of_sets(built, identity) ==
    IF IsRaised(built) THEN built
    ELSE Returned([identity |-> identity, value |-> sets_by_id(built.returned)])

\* The body of get_substitution_sets.  table is the bnf_code column of the
\* presentation table and up tells whether the query succeeds; data is the
\* content of the swaps file.
get_substitution_sets_body(table, up, data, identity) ==
    IF ~up THEN Raised("OperationalError")
    ELSE dict_of_sets(get_substitution_sets_from_bnf_codes(data, table), identity)

\* A plausible slip: a wrapper that stores nothing.
call_without_store(stored, outcome) ==
    [cache |-> stored, result |-> outcome, called |-> TRUE]

\* A plausible slip: a wrapper that stores whatever the body did, an exception
\* as well.
call_storing_exceptions(stored, outcome) ==
    IF stored # <<>>
    THEN [cache |-> stored, result |-> stored[1], called |-> FALSE]
    ELSE [cache |-> <<outcome>>, result |-> outcome, called |-> TRUE]

\* A call of a function of no argument wrapped by lru_cache(maxsize=None).
\* stored is the cache, empty or holding the one result; outcome is what the
\* body does if it is called now.  A hit returns the stored object without
\* calling the body; on a miss the body is called, an exception passes through
\* and stores nothing, a result is stored and returned.
memoize_call(stored, outcome) ==
    IF stored # <<>>
    THEN [cache |-> stored, result |-> stored[1], called |-> FALSE]
    ELSE IF IsRaised(outcome)
    THEN [cache |-> stored, result |-> outcome, called |-> TRUE]
    ELSE [cache |-> <<outcome>>, result |-> outcome, called |-> TRUE]

---------------------------------------------------------------------------
(* Inputs *)

MaxPairs == 3

RECURSIVE SeqsUpTo(_, _)
SeqsUpTo(S, n) ==
    IF n = 0 THEN {<<>>}
    ELSE LET shorter == SeqsUpTo(S, n - 1)
         IN  shorter \cup {Append(s, x) : s \in {t \in shorter : Len(t) = n - 1}, x \in S}

SubParagraphs == {
    <<"0","3","0","2","0","0","0","C","0">>, <<"0","9","0","4","0","1","0","H","0">>, <<"1","3","1","1","0","7","0","S","0">>, <<"1","3","1","1","0","2","0","L","0">>, <<"0","3","0","1","0","2","0","S","0">>,
    <<"1","9","0","7","0","0","0","0","0">>, <<"0","6","0","4","0","1","1","L","0">>, <<"1","5","0","2","0","1","0","J","0">>, <<"1","2","0","1","0","1","0","F","0">>, <<"0","1","0","7","0","1","0","S","0">>,
    <<"0","6","0","0","1","6","0","0","0">>, <<"1","9","0","2","0","1","0","0","0">>, <<"1","9","0","2","0","2","0","0","0">>, <<"0","6","0","1","0","6","0","U","0">>, <<"0","6","0","1","0","6","0","D","0">>,
    <<"0","4","0","7","0","2","0","4","0">> }

PackCodes == {
    <<"A","A","A","A">>, <<"B","B","C","J">>, <<"B","G","A","A">>, <<"A","A","A","G">>, <<"B","B","A","A">>, <<"A","A","B","J">>, <<"A","A","B","K">>, <<"A","A","B","L">>,
    <<"A","A","B","M">>, <<"A","A","B","N">>, <<"A","A","A","D">>, <<"B","B","A","C">>, <<"B","B","A","D">> }

StrengthCodes == {
    <<"A","0">>, <<"A","A">>, <<"B","E">>, <<"B","F">>, <<"B","H">>, <<"B","G">>, <<"B","S">>, <<"B","Y">>, <<"A","H">>, <<"A","G">>,
    <<"B","J">>, <<"B","K">>, <<"B","L">>, <<"B","M">>, <<"B","N">>, <<"A","D">>, <<"A","C">> }

FullCodes == {p \o k \o s : p \in SubParagraphs, k \in PackCodes, s \in StrengthCodes}

\* Codes of 15 characters and strings of other lengths: the empty string, bare
\* sub-paragraphs, codes cut by one character, codes with one character more.
ClassifierInputs ==
    FullCodes \cup {<<>>} \cup SubParagraphs
        \cup {SubSeq(c, 1, 14) : c \in FullCodes}
        \cup {c \o <<"A">> : c \in FullCodes}

Elements == {1, 2, 3, 4}

MaxRows == 3

\* Tramadol tablets and capsules of 100mg and 200mg, the generic codes of
\* the example in read_formulation_swaps_file; a brand of the first; a generic
\* code that an exclusion pattern matches.
Tab100 == <<"0","4","0","7","0","2","0","4","0","A","A","A","C","A","C">>
Cap100 == <<"0","4","0","7","0","2","0","4","0","A","A","A","H","A","H">>
Tab200 == <<"0","4","0","7","0","2","0","4","0","A","A","A","E","A","E">>
Cap200 == <<"0","4","0","7","0","2","0","4","0","A","A","A","J","A","J">>
Brand100 == <<"0","4","0","7","0","2","0","4","0","B","B","A","C","A","C">>
ExcludedGeneric == <<"1","2","0","1","0","1","0","F","0","A","A","A","A","A","A">>

CodePairs == {
    <<Tab100, Cap100>>, <<Cap100, Tab200>>, <<Tab200, Cap200>>, <<Cap200, Tab100>>,
    <<Tab100, Tab100>>, <<Brand100, Cap100>>, <<Tab100, ExcludedGeneric>> }

FormulationPairs == { <<<<"T","a","b">>, <<"C","a","p">>>>, <<<<"C","a","p">>, <<>>>> }

\* Rows flagged "Y" over the code pairs and the formulation pairs, a row whose
\* fields carry surrounding blanks, and rows with another flag.
SwapRows ==
    {Row(c[1], c[2], f[1], f[2], <<"Y">>) : c \in CodePairs, f \in FormulationPairs}
    \cup { Row(<<" ","0","4","0","7","0","2","0","4","0","A","A","A","H","A","H">>, <<"0","4","0","7","0","2","0","4","0","A","A","A","J","A","J","\t">>, <<" ","L","i","q"," ">>, <<"T","a","b","\n">>, <<" ","Y"," ">>),
           Row(Brand100, Brand100, <<"T","a","b">>, <<"C","a","p">>, <<"N">>),
           Row(Tab200, Cap200, <<"L","i","q">>, <<"T","a","b">>, <<"y">>),
           Row(Tab100, Tab200, <<"L","i","q">>, <<"L","i","q">>, <<>>) }

MaxCodes == 3

\* Product codes: generics and brands of two tramadol presentations, products
\* of an overridden sub-paragraph, a generic already in "A0" form, a code of
\* an excluded group, a code of the wrong length.
ProductCodes == {
    Tab100, Brand100, Cap100, <<"0","4","0","7","0","2","0","4","0","B","B","A","H","A","H">>,
    <<"0","6","0","1","0","6","0","U","0","B","B","A","A","A","0">>, <<"0","6","0","1","0","6","0","U","0","B","C","A","B","A","0">>,
    <<"0","4","0","7","0","2","0","4","0","A","A","A","A","A","0">>, <<"0","3","0","2","0","0","0","C","0","A","A","A","B","B","E">>, <<"0","4","0","7">> }

\* Contents of FORMULATION_SWAPS_FILE: no row; tablets and capsules of 100mg
\* declared equivalent; the same after a skipped row; a row of two equal codes.
SwapFiles == {
    <<>>,
    << Row(Tab100, Cap100, <<"T","a","b">>, <<"C","a","p">>, <<"Y">>) >>,
    << Row(Brand100, Brand100, <<"T","a","b">>, <<"C","a","p">>, <<"N">>),
       Row(Cap100, Tab100, <<"C","a","p">>, <<>>, <<"Y">>) >>,
    << Row(Tab100, Tab100, <<"T","a","b">>, <<"C","a","p">>, <<"Y">>) >> }

MaxCalls == 3

\* Contents of the presentation table over the life of the process.
Tables == {
    <<>>,
    << Tab100, Brand100 >>,
    << Tab100, Brand100, Cap100, <<"0","3","0","2","0","0","0","C","0","A","A","A","B","B","E">> >> }

---------------------------------------------------------------------------
(* Specifications *)

classifier_vars == <<bnf_code, generic_code, regeneric_code>>
merger_vars == <<pairs, groups>>
loader_vars == <<formulation_swaps>>
builder_vars == <<bnf_codes, substitution_sets>>
memo_vars == <<db, db_up, cache, executions, allocated, returned>>

InitClassifier ==
    /\ pc = "start"
    /\ bnf_code \in ClassifierInputs
    /\ generic_code = Unused /\ regeneric_code = Unused
    /\ pairs = Unused /\ groups = Unused
    /\ rows = Unused /\ formulation_swaps = Unused
    /\ bnf_codes = Unused /\ substitution_sets = Unused
    /\ db = Unused /\ db_up = Unused /\ cache = Unused
    /\ executions = Unused /\ allocated = Unused /\ returned = Unused

Classify ==
    /\ pc = "start"
    /\ generic_code' = generic_equivalent_for_bnf_code(bnf_code)
    /\ pc' = "classified"
    /\ UNCHANGED <<bnf_code, regeneric_code, rows>>
    /\ UNCHANGED <<merger_vars, loader_vars, builder_vars, memo_vars>>

\* The classifier applied to a code it returned.
Reclassify ==
    /\ pc = "classified"
    /\ generic_code # None
    /\ regeneric_code' = generic_equivalent_for_bnf_code(generic_code)
    /\ pc' = "reclassified"
    /\ UNCHANGED <<bnf_code, generic_code, rows>>
    /\ UNCHANGED <<merger_vars, loader_vars, builder_vars, memo_vars>>

NextClassifier == Classify \/ Reclassify

SpecClassifier == InitClassifier /\ [][NextClassifier]_vars

InitMerger ==
    /\ pc = "start"
    /\ pairs \in SeqsUpTo(Elements \X Elements, MaxPairs)
    /\ groups = Unused
    /\ bnf_code = Unused /\ generic_code = Unused /\ regeneric_code = Unused
    /\ rows = Unused /\ formulation_swaps = Unused
    /\ bnf_codes = Unused /\ substitution_sets = Unused
    /\ db = Unused /\ db_up = Unused /\ cache = Unused
    /\ executions = Unused /\ allocated = Unused /\ returned = Unused

Merge ==
    /\ pc = "start"
    /\ groups' = groups_from_pairs(pairs)
    /\ pc' = "merged"
    /\ UNCHANGED <<pairs, rows>>
    /\ UNCHANGED <<classifier_vars, loader_vars, builder_vars, memo_vars>>

NextMerger == Merge

SpecMerger == InitMerger /\ [][NextMerger]_vars


InitLoader ==
    /\ pc = "start"
    /\ rows \in SeqsUpTo(SwapRows, MaxRows)
    /\ formulation_swaps = Unused
    /\ bnf_code = Unused /\ generic_code = Unused /\ regeneric_code = Unused
    /\ pairs = Unused /\ groups = Unused
    /\ bnf_codes = Unused /\ substitution_sets = Unused
    /\ db = Unused /\ db_up = Unused /\ cache = Unused
    /\ executions = Unused /\ allocated = Unused /\ returned = Unused

Load ==
    /\ pc = "start"
    /\ formulation_swaps' = get_formulation_swaps(rows)
    /\ pc' = "loaded"
    /\ UNCHANGED rows
    /\ UNCHANGED <<classifier_vars, merger_vars, builder_vars, memo_vars>>

NextLoader == Load

SpecLoader == InitLoader /\ [][NextLoader]_vars


InitBuilder ==
    /\ pc = "start"
    /\ rows \in SwapFiles
    /\ bnf_codes \in SeqsUpTo(ProductCodes, MaxCodes)
    /\ substitution_sets = Unused
    /\ bnf_code = Unused /\ generic_code = Unused /\ regeneric_code = Unused
    /\ pairs = Unused /\ groups = Unused
    /\ formulation_swaps = Unused
    /\ db = Unused /\ db_up = Unused /\ cache = Unused
    /\ executions = Unused /\ allocated = Unused /\ returned = Unused

Build ==
    /\ pc = "start"
    /\ substitution_sets' = get_substitution_sets_from_bnf_codes(rows, bnf_codes)
    /\ pc' = "built"
    /\ UNCHANGED <<rows, bnf_codes>>
    /\ UNCHANGED <<classifier_vars, merger_vars, loader_vars, memo_vars>>

NextBuilder == Build

SpecBuilder == InitBuilder /\ [][NextBuilder]_vars

\* The process: the module has been imported, nothing is cached.
Init ==
    /\ pc = "running"
    /\ rows \in SwapFiles
    /\ db \in Tables
    /\ db_up \in BOOLEAN
    /\ cache = <<>>
    /\ executions = 0
    /\ allocated = 0
    /\ returned = <<>>
    /\ bnf_code = Unused /\ generic_code = Unused /\ regeneric_code = Unused
    /\ pairs = Unused /\ groups = Unused
    /\ formulation_swaps = Unused
    /\ bnf_codes = Unused /\ substitution_sets = Unused

\* A call of get_substitution_sets().
get_substitution_sets ==
    /\ Len(returned) < MaxCalls
    /\ \E call \in {memoize_call(
                        cache, get_substitution_sets_body(db, db_up, rows, allocated + 1))} :
           /\ cache' = call.cache
           /\ returned' = Append(returned, call.result)
           /\ executions' = IF call.called THEN executions + 1 ELSE executions
           /\ allocated' = IF call.called /\ ~IsRaised(call.result)
                           THEN allocated + 1 ELSE allocated
    /\ UNCHANGED <<pc, rows, db, db_up>>
    /\ UNCHANGED <<classifier_vars, merger_vars, loader_vars, builder_vars>>

\* The presentation table is rewritten by an import.
TableChanges ==
    /\ db' \in Tables \ {db}
    /\ UNCHANGED <<pc, rows, db_up, cache, executions, allocated, returned>>
    /\ UNCHANGED <<classifier_vars, merger_vars, loader_vars, builder_vars>>

\* The database becomes unavailable, or available again.
DatabaseFlips ==
    /\ db_up' = ~db_up
    /\ UNCHANGED <<pc, rows, db, cache, executions, allocated, returned>>
    /\ UNCHANGED <<classifier_vars, merger_vars, loader_vars, builder_vars>>

Next == get_substitution_sets \/ TableChanges \/ DatabaseFlips

Spec == Init /\ [][Next]_vars

---------------------------------------------------------------------------
(* Properties of the code classifier *)

Classified == pc \in {"classified", "reclassified"}

\* C3: the classifier returns None for a code whose length is not 15 and for
\* a code that an exclusion pattern matches; otherwise it returns
\* prefix + "AA" + suffix + suffix when the suffix is not "A0" or the prefix
\* is an overridden sub-paragraph, and None in the remaining case.  The
\* result is always None or a string of 15 characters (nothing is raised).
ClassifierMatchesReference ==
    Classified =>
        LET prefix == SubSeq(bnf_code, 1, 9)
            suffix == SubSeq(bnf_code, 14, 15)
            excluded == EXCLUSIONS_RE_match(bnf_code)
            overridden == prefix \in {<<"0","6","0","1","0","6","0","U","0">>, <<"0","6","0","1","0","6","0","D","0">>}
        IN  /\ generic_code = None \/ Len(generic_code) = 15
            /\ Len(bnf_code) # 15 => generic_code = None
            /\ Len(bnf_code) = 15 /\ excluded => generic_code = None
            /\ Len(bnf_code) = 15 /\ ~excluded /\ (suffix # <<"A","0">> \/ overridden)
                   => generic_code = prefix \o <<"A","A">> \o suffix \o suffix
            /\ Len(bnf_code) = 15 /\ ~excluded /\ suffix = <<"A","0">> /\ ~overridden
                   => generic_code = None

\* A code in "A0" form of an overridden sub-paragraph has been classified to
\* the sub-paragraph's own code.
ClassifierOverrideWitness ==
    /\ pc = "classified"
    /\ bnf_code = <<"0","6","0","1","0","6","0","U","0","B","B","A","A","A","0">>
    /\ generic_code = <<"0","6","0","1","0","6","0","U","0","A","A","A","0","A","0">>

\* C10 as stated: the classifier maps every code it returns to itself.
ClassifierIdempotent ==
    pc = "reclassified" => regeneric_code = generic_code

\* C10 amended: the classifier maps a code it returns to itself unless an
\* exclusion pattern matches that returned code, and then it maps it to None.
ClassifierIdempotentUnlessExcluded ==
    pc = "reclassified" =>
        IF EXCLUSIONS_RE_match(generic_code)
        THEN regeneric_code = None
        ELSE regeneric_code = generic_code

\* A branded code has been classified to a generic code other than itself and
\* the generic code has been classified to itself.
ClassifierIdempotentWitness ==
    /\ pc = "reclassified"
    /\ bnf_code = <<"0","4","0","7","0","2","0","4","0","B","B","A","C","A","C">>
    /\ generic_code = <<"0","4","0","7","0","2","0","4","0","A","A","A","C","A","C">>
    /\ regeneric_code = generic_code

---------------------------------------------------------------------------
(* Properties of the equivalence merger *)

EdgeSet(pair_list) == Range(pair_list)

Nodes(pair_list) ==
    {p[1] : p \in EdgeSet(pair_list)} \cup {p[2] : p \in EdgeSet(pair_list)}

\* The elements joined to an element of S by a chain of edges.
RECURSIVE Reach(_, _)
Reach(S, edges) ==
    LET step == S \cup {p[2] : p \in {e \in edges : e[1] \in S}}
                  \cup {p[1] : p \in {e \in edges : e[2] \in S}}
    IN  IF step = S THEN S ELSE Reach(step, edges)

Components(pair_list) ==
    {Reach({x}, EdgeSet(pair_list)) : x \in Nodes(pair_list)}

Partition(group_list) == {Range(group_list[i]) : i \in DOMAIN group_list}

\* The same pairs with pairs i and i+1 exchanged, with pair i turned round,
\* with pair i repeated at the end.
Exchanged(pair_list, i) ==
    [pair_list EXCEPT ![i] = pair_list[i + 1], ![i + 1] = pair_list[i]]
Turned(pair_list, i) ==
    [pair_list EXCEPT ![i] = <<pair_list[i][2], pair_list[i][1]>>]
Repeated(pair_list, i) == Append(pair_list, pair_list[i])

\* C4: the groups yielded are the connected components of the graph of the
\* pairs: no element twice in a group, no element in two groups, two elements
\* in one group iff a chain of pairs joins them; and the partition is the same
\* when two neighbouring pairs are exchanged (hence under every reordering),
\* when a pair is turned round and when a pair is repeated.
GroupsAreComponents ==
    pc = "merged" =>
        /\ Partition(groups) = Components(pairs)
        /\ \A i \in DOMAIN groups : Cardinality(Range(groups[i])) = Len(groups[i])
        /\ \A i, j \in DOMAIN groups :
               i # j => Range(groups[i]) \cap Range(groups[j]) = {}
        /\ \A i \in DOMAIN pairs :
               /\ Partition(groups_from_pairs(Turned(pairs, i))) = Partition(groups)
               /\ Partition(groups_from_pairs(Repeated(pairs, i))) = Partition(groups)
               /\ i < Len(pairs) =>
                      Partition(groups_from_pairs(Exchanged(pairs, i))) = Partition(groups)

\* (A,B) then (B,C) has given the one group {A,B,C}.
GroupsTransitiveWitness ==
    /\ pc = "merged"
    /\ pairs = << <<1, 2>>, <<2, 3>> >>
    /\ groups = << <<1, 2, 3>> >>

\* The place where x first occurs when the pairs are read in sequence, the
\* left element of a pair before the right one.
FirstSeen(pair_list, x) ==
    LET at(n) == pair_list[(n + 1) \div 2][IF n % 2 = 1 THEN 1 ELSE 2]
    IN  CHOOSE n \in 1..(2 * Len(pair_list)) :
            /\ at(n) = x
            /\ \A m \in 1..(n - 1) : at(m) # x

InFirstSeenOrder(pair_list, group) ==
    \A i, j \in DOMAIN group :
        i < j => FirstSeen(pair_list, group[i]) < FirstSeen(pair_list, group[j])

\* C9 as stated, for pairs of two different elements (the caller rejects a
\* pair of equal elements): every group lists its elements in first-seen order.
GroupsInFirstSeenOrder ==
    pc = "merged" /\ (\A i \in DOMAIN pairs : pairs[i][1] # pairs[i][2])
        => \A i \in DOMAIN groups : InFirstSeenOrder(pairs, groups[i])

\* Every pair that joins two different groups finds all the elements of its
\* left element's group first seen before all those of its right element's.
MergesInSeenOrder(pair_list) ==
    \A i \in DOMAIN pair_list :
        LET before == Range(SubSeq(pair_list, 1, i - 1))
            left == Reach({pair_list[i][1]}, before)
            right == Reach({pair_list[i][2]}, before)
        IN  \/ left = right
            \/ \A x \in left, y \in right :
                   FirstSeen(pair_list, x) < FirstSeen(pair_list, y)

\* C9 amended: a pair that joins two different groups puts the elements of
\* its left element's group before those of its right element's group, so the
\* groups are all in first-seen order exactly when every joining pair finds
\* the left group's elements first seen before the right group's.
GroupsInMergeOrder ==
    pc = "merged" =>
        ((\A i \in DOMAIN groups : InFirstSeenOrder(pairs, groups[i]))
            <=> MergesInSeenOrder(pairs))

\* Two groups of two have been merged by a later pair and the merged group is
\* in first-seen order.
GroupsMergedInOrderWitness ==
    /\ pc = "merged"
    /\ pairs = << <<1, 2>>, <<3, 4>>, <<1, 3>> >>
    /\ groups = << <<1, 2, 3, 4>> >>

---------------------------------------------------------------------------
(* Properties of the swap table loader *)

Loaded == pc = "loaded" /\ ~IsRaised(formulation_swaps)

\* The accepted rows of a table, in order.
AcceptedRows(data) == SelectSeq(data, LAMBDA row : strip(row.Really_equivalent) = <<"Y">>)

\* The pairs that the accepted rows declare.
DeclaredPairs(data) ==
    [i \in DOMAIN AcceptedRows(data) |->
        <<strip(AcceptedRows(data)[i].Code), strip(AcceptedRows(data)[i].Alternative_code)>>]

\* The least string of a non-empty set of strings.
Least(S) == CHOOSE x \in S : \A y \in S : x = y \/ StrLess(x, y)

\* C5: the swaps map sends every member of every equivalence group of the
\* accepted rows to the lexically least member of its group and has no other
\* key; it is the same when two neighbouring rows are exchanged, hence for
\* every reordering of the rows.
SwapsToLeastMember ==
    Loaded =>
        LET swaps == formulation_swaps.returned.swaps
            declared == DeclaredPairs(rows)
        IN  /\ DOMAIN swaps = Nodes(declared)
            /\ \A c \in DOMAIN swaps : swaps[c] = Least(Reach({c}, EdgeSet(declared)))
            /\ \A i \in 1..(Len(rows) - 1) :
                   get_formulation_swaps(Exchanged(rows, i)).returned.swaps = swaps

\* A chain of two rows has been loaded, listed against the lexical order: the
\* three codes all go to the least of them.
SwapsChainWitness ==
    /\ Loaded
    /\ rows = << Row(Tab200, Cap200, <<"T","a","b">>, <<"C","a","p">>, <<"Y">>),
                 Row(Cap200, Tab100, <<"T","a","b">>, <<"C","a","p">>, <<"Y">>) >>
    /\ LET swaps == formulation_swaps.returned.swaps
       IN  /\ DOMAIN swaps = {Tab100, Tab200, Cap200}
           /\ \A c \in DOMAIN swaps : swaps[c] = Tab100

\* The non-empty labels that any accepted row attaches to a code of the group.
LabelsOfAnyRow(data, group) ==
    {strip(AcceptedRows(data)[i].Formulation) :
        i \in {k \in DOMAIN AcceptedRows(data) : strip(AcceptedRows(data)[k].Code) \in group}}
    \cup
    {strip(AcceptedRows(data)[i].Alternative_formulation) :
        i \in {k \in DOMAIN AcceptedRows(data) :
                  strip(AcceptedRows(data)[k].Alternative_code) \in group}}

\* The label that the last accepted row naming the code attaches to it.
LastLabel(data, c) ==
    LET accepted == AcceptedRows(data)
        naming == {k \in DOMAIN accepted :
                      c \in {strip(accepted[k].Code), strip(accepted[k].Alternative_code)}}
        last == CHOOSE k \in naming : \A m \in naming : m <= k
    IN  IF strip(accepted[last].Code) = c
        THEN strip(accepted[last].Formulation)
        ELSE strip(accepted[last].Alternative_formulation)

LabelsOfLastRows(data, group) == {LastLabel(data, c) : c \in group}

\* The descriptions are those of the label sets L[g]: an entry at the primary
\* code of each group whose L has more than one non-empty label, the labels
\* sorted and joined by " / ", and no other entry.
DescriptionsFrom(L, swap_descriptions, declared) ==
    /\ DOMAIN swap_descriptions \subseteq {Least(g) : g \in Components(declared)}
    /\ \A g \in Components(declared) :
           LET labels == L[g] \ {<<>>}
           IN  IF Cardinality(labels) > 1
               THEN /\ Least(g) \in DOMAIN swap_descriptions
                    /\ swap_descriptions[Least(g)] = join(<<" ","/"," ">>, sorted_set(labels))
               ELSE Least(g) \notin DOMAIN swap_descriptions

BadRow(row) ==
    /\ strip(row.Really_equivalent) = <<"Y">>
    /\ \/ generic_equivalent_for_bnf_code(strip(row.Code)) # strip(row.Code)
       \/ generic_equivalent_for_bnf_code(strip(row.Alternative_code))
              # strip(row.Alternative_code)
       \/ strip(row.Code) = strip(row.Alternative_code)

\* C7: the load raises, and returns neither swaps nor descriptions, iff some
\* accepted row has a code that does not classify to itself or has two equal
\* codes; the rows with another flag change nothing: the outcome is that of
\* the table without them.
LoadFailsIffBadRow ==
    pc = "loaded" =>
        /\ IsRaised(formulation_swaps) <=> \E i \in DOMAIN rows : BadRow(rows[i])
        /\ IsRaised(formulation_swaps) => DOMAIN formulation_swaps = {"raised"}
        /\ formulation_swaps = get_formulation_swaps(AcceptedRows(rows))

\* A load has raised on a row of two equal codes that follows a good row, and
\* a row of two brand codes flagged "N" is in the table.
LoadFailsWitness ==
    /\ pc = "loaded"
    /\ IsRaised(formulation_swaps)
    /\ rows = << Row(Brand100, Brand100, <<"T","a","b">>, <<"C","a","p">>, <<"N">>),
                 Row(Tab100, Cap100, <<"T","a","b">>, <<"C","a","p">>, <<"Y">>),
                 Row(Tab100, Tab100, <<"T","a","b">>, <<"C","a","p">>, <<"Y">>) >>

---------------------------------------------------------------------------
(* Properties of the substitution set builder *)

Built == pc = "built" /\ ~IsRaised(substitution_sets)

\* The key of the entry at place i of the input: its generic equivalent taken
\* through the swaps, None when it has no generic equivalent.
EntryKey(i) ==
    LET swaps == get_formulation_swaps(rows).returned.swaps
        classified == generic_equivalent_for_bnf_code(bnf_codes[i])
    IN  IF classified \in DOMAIN swaps THEN swaps[classified] ELSE classified

\* The places of the input whose entry has the key k.
EntriesOf(k) == {i \in DOMAIN bnf_codes : EntryKey(i) = k}

Occurrences(list, x) == Cardinality({i \in DOMAIN list : list[i] = x})

\* C8: there is a set of id k iff at least two entries of the input, repeated
\* entries counted apart, have the key k; its presentations are those entries,
\* each as often as it occurs, in lexical order; no set has fewer than two
\* presentations, no two sets share an id, and a code without a generic
\* equivalent is in no set.
SetsAreKeyGroups ==
    Built =>
        LET sets == substitution_sets.returned
        IN  /\ {sets[n].id : n \in DOMAIN sets}
                   = {k \in {EntryKey(i) : i \in DOMAIN bnf_codes} \ {None} :
                         Cardinality(EntriesOf(k)) >= 2}
            /\ \A n, m \in DOMAIN sets : n # m => sets[n].id # sets[m].id
            /\ \A n \in DOMAIN sets :
                   LET presentations == sets[n].presentations
                   IN  /\ Len(presentations) = Cardinality(EntriesOf(sets[n].id))
                       /\ Len(presentations) >= 2
                       /\ \A i \in DOMAIN bnf_codes :
                              Occurrences(presentations, bnf_codes[i])
                                  = Cardinality({j \in EntriesOf(sets[n].id) :
                                                    bnf_codes[j] = bnf_codes[i]})
                       /\ \A i \in 1..(Len(presentations) - 1) :
                              ~StrLess(presentations[i + 1], presentations[i])
                       /\ \A i \in DOMAIN presentations :
                              generic_equivalent_for_bnf_code(presentations[i]) # None

\* Capsules listed twice and tablets once, declared equivalent by the swaps
\* file, have been put in the one set of the tablets' code.
SetsWitness ==
    /\ Built
    /\ bnf_codes = << Cap100, Tab100, Cap100 >>
    /\ substitution_sets.returned =
           << SubstitutionSet(Tab100, "Tramadol HCl_Tab 100mg",
                              << Tab100, Cap100, Cap100 >>, <<"C","a","p"," ","/"," ","T","a","b">>) >>

---------------------------------------------------------------------------
(* Properties of the memoized accessor *)

RaisedCalls == {i \in DOMAIN returned : IsRaised(returned[i])}

\* C1 as stated: the body is executed at most once and every call after the
\* first returns what the first call returned.
ExecutedAtMostOnce ==
    pc = "running" =>
        /\ executions <= 1
        /\ \A i \in DOMAIN returned : returned[i] = returned[1]

\* C1 amended: the body completes at most once: every call executes it until
\* one call returns a result, no call executes it after that, and every later
\* call returns the identical object that this call returned.
CompletedAtMostOnce ==
    pc = "running" =>
        /\ allocated <= 1
        /\ executions = Cardinality(RaisedCalls) + allocated
        /\ \A i, j \in DOMAIN returned :
               i < j /\ ~IsRaised(returned[i]) => returned[j] = returned[i]

\* Three calls have returned the one object while the table was rewritten
\* after the first.
CachedResultWitness ==
    /\ pc = "running"
    /\ Len(returned) = 3
    /\ ~IsRaised(returned[1])
    /\ returned[3] = returned[1]
    /\ executions = 1
    /\ returned[1].returned.value
           # sets_by_id(get_substitution_sets_from_bnf_codes(rows, db).returned)

\* C2: a call whose body raises hands the caller the exception that the body
\* raised and leaves the cache empty, and the call that follows a failed call
\* executes the body again and returns what the body does then.
FailureNotCached ==
    [][ Len(returned') = Len(returned) + 1 =>
            LET outcome == get_substitution_sets_body(db, db_up, rows, allocated + 1)
                result == returned'[Len(returned')]
            IN  /\ cache = <<>> /\ IsRaised(outcome) =>
                       /\ result = outcome
                       /\ cache' = <<>>
                /\ returned # <<>> /\ IsRaised(returned[Len(returned)]) =>
                       /\ executions' = executions + 1
                       /\ result = outcome
      ]_vars

\* A call has failed and the next call has run the body and returned a result.
RetryWitness ==
    /\ pc = "running"
    /\ Len(returned) = 2
    /\ IsRaised(returned[1])
    /\ ~IsRaised(returned[2])
    /\ executions = 2

====
